---------------------------- MODULE Spec2Model ----------------------------
(***************************************************************************)
(* A model of the cloudstorage package: the driver registry of             *)
(* cloudstorage/__init__.py (DriverName, _DRIVER_IMPORTS, get_driver,      *)
(* get_driver_by_name and the package's import-time statements), and the   *)
(* Driver / Container / Blob contract of cloudstorage.base, which the      *)
(* package imports.                                                        *)
(***************************************************************************)
EXTENDS Naturals, Sequences, FiniteSets, TLC

VARIABLES
    pc,               \* "unloaded" before `import cloudstorage`, "loaded" after
    sys_modules,      \* the cloudstorage modules the interpreter has loaded
    driver_imports,   \* the module global _DRIVER_IMPORTS (a dict)
    calls,            \* every registry call made so far, with its outcome
    ncalls,           \* how many registry calls were made
    provider,         \* the policies of the storage provider behind the Driver
    containers,       \* names of the containers that exist
    blobs,            \* <<container, blob>> pairs of the blobs that exist
    handles,          \* Blob instances held by the caller
    cascade,          \* progress of a delete_container(name, cascade=True)
    deleted_ok,       \* the Blob instances whose delete() has succeeded
    result,           \* the outcome of the last storage operation
    nops              \* how many storage operations were started

regvars == <<pc, sys_modules, driver_imports, calls, ncalls>>
storevars == <<provider, containers, blobs, handles, cascade, deleted_ok,
               result, nops>>
vars == <<pc, sys_modules, driver_imports, calls, ncalls,
          provider, containers, blobs, handles, cascade, deleted_ok,
          result, nops>>

(***************************************************************************)
(* Bounds of the model.                                                    *)
(***************************************************************************)
MaxCalls == 3
MaxOps == 5
MaxHandles == 2

--------------------------------------------------------------------------
(* Python values the registry functions are called with: a plain str or a  *)
(* member of the DriverName enumeration.                                   *)

Str(s) == [kind |-> "str", name |-> "", value |-> s]

\* class DriverName(Enum): the members in definition order, name = value.
DriverName ==
    << [kind |-> "DriverName", name |-> "AZURE",         value |-> "AZURE"],
       [kind |-> "DriverName", name |-> "CLOUDFILES",    value |-> "CLOUDFILES"],
       [kind |-> "DriverName", name |-> "GOOGLESTORAGE", value |-> "GOOGLESTORAGE"],
       [kind |-> "DriverName", name |-> "LOCAL",         value |-> "LOCAL"],
       [kind |-> "DriverName", name |-> "S3",            value |-> "S3"] >>

Members == {DriverName[i] : i \in DOMAIN DriverName}

MemberNames == {m.name : m \in Members}

\* DriverName.<name> for a name that is a member name.
Member(n) == CHOOSE m \in Members : m.name = n

\* Strings a caller may pass: the five names, and strings that are not names.
Strings == MemberNames \cup {"local", "Local", "s3", "FOO", "DriverName.LOCAL", ""}

\* str(v), as "%s" % v computes it: a str is itself, an Enum member prints
\* as ClassName.MEMBER.
PyStr(v) == IF v.kind = "str" THEN v.value ELSE "DriverName." \o v.name

\* repr(s) of a str without quotes in it.
PyRepr(s) == "'" \o s \o "'"

\* The outcome of a call: a returned class, or a raised exception.
Return(mod, cls) == [kind |-> "return", module |-> mod, class |-> cls,
                     exc |-> "", msg |-> ""]

Raise(exc, msg) == [kind |-> "raise", module |-> "", class |-> "",
                    exc |-> exc, msg |-> msg]

\* The classes an exception class derives from (itself included).
\* CloudStorageError derives from Exception; KeyError from LookupError.
Bases(exc) ==
    CASE exc = "CloudStorageError" -> {"CloudStorageError", "Exception"}
      [] exc = "KeyError"          -> {"KeyError", "LookupError", "Exception"}
      [] exc = "AttributeError"    -> {"AttributeError", "Exception"}
      [] OTHER                     -> {exc, "Exception"}

--------------------------------------------------------------------------
(* Import time.                                                            *)

\* The `from <module> import <names>` statements at the top of the package.
ModuleImports ==
    { <<"cloudstorage.base", "Blob">>,
      <<"cloudstorage.base", "Container">>,
      <<"cloudstorage.base", "Driver">>,
      <<"cloudstorage.drivers.amazon", "S3Driver">>,
      <<"cloudstorage.drivers.google", "GoogleStorageDriver">>,
      <<"cloudstorage.drivers.local", "LocalDriver">>,
      <<"cloudstorage.drivers.microsoft", "AzureStorageDriver">>,
      <<"cloudstorage.drivers.rackspace", "CloudFilesDriver">>,
      <<"cloudstorage.exceptions", "CloudStorageError">> }

\* The modules that hold a concrete driver implementation.
DriverModules ==
    { "cloudstorage.drivers.amazon", "cloudstorage.drivers.google",
      "cloudstorage.drivers.local", "cloudstorage.drivers.microsoft",
      "cloudstorage.drivers.rackspace" }

\* Variant of the dict literal with the S3 entry left out.
DriverImportsMissingS3 ==
    [m \in Members \ {Member("S3")} |->
        CASE m.name = "AZURE" ->
                <<"cloudstorage.drivers.microsoft", "AzureStorageDriver">>
          [] m.name = "CLOUDFILES" ->
                <<"cloudstorage.drivers.rackspace", "CloudFilesDriver">>
          [] m.name = "GOOGLESTORAGE" ->
                <<"cloudstorage.drivers.google", "GoogleStorageDriver">>
          [] m.name = "LOCAL" ->
                <<"cloudstorage.drivers.local", "LocalDriver">>]

\* Variant of the dict literal whose S3 entry repeats the Google target.
DriverImportsDuplicate ==
    [m \in Members |->
        CASE m.name = "AZURE" ->
                <<"cloudstorage.drivers.microsoft", "AzureStorageDriver">>
          [] m.name = "CLOUDFILES" ->
                <<"cloudstorage.drivers.rackspace", "CloudFilesDriver">>
          [] m.name = "GOOGLESTORAGE" ->
                <<"cloudstorage.drivers.google", "GoogleStorageDriver">>
          [] m.name = "LOCAL" ->
                <<"cloudstorage.drivers.local", "LocalDriver">>
          [] m.name = "S3" ->
                <<"cloudstorage.drivers.google", "GoogleStorageDriver">>]

\* The dict literal assigned to _DRIVER_IMPORTS.
_DRIVER_IMPORTS ==
    [m \in Members |->
        CASE m.name = "AZURE" ->
                <<"cloudstorage.drivers.microsoft", "AzureStorageDriver">>
          [] m.name = "CLOUDFILES" ->
                <<"cloudstorage.drivers.rackspace", "CloudFilesDriver">>
          [] m.name = "GOOGLESTORAGE" ->
                <<"cloudstorage.drivers.google", "GoogleStorageDriver">>
          [] m.name = "LOCAL" ->
                <<"cloudstorage.drivers.local", "LocalDriver">>
          [] m.name = "S3" ->
                <<"cloudstorage.drivers.amazon", "S3Driver">>]

--------------------------------------------------------------------------
(* The registry functions.  Each takes the interpreter state it reads     *)
(* (the dict, the loaded modules) and gives the outcome and the state it  *)
(* leaves.                                                                 *)

\* Variant of the lookup that gives the member after the one named.
EnumGetItemOffByOne(name) ==
    IF \E i \in DOMAIN DriverName : DriverName[i].name = name
    THEN LET i == CHOOSE j \in DOMAIN DriverName : DriverName[j].name = name
         IN  [ok |-> TRUE, member |-> DriverName[(i % Len(DriverName)) + 1],
              exc |-> Raise("", "")]
    ELSE [ok |-> FALSE, member |-> Str(name),
          exc |-> Raise("KeyError", PyRepr(name))]

\* Variant of the lookup that ignores the case of the name.
EnumGetItemIgnoreCase(name) ==
    LET up == CASE name \in {"local", "Local"} -> "LOCAL"
                [] name = "s3" -> "S3"
                [] OTHER -> name
    IN  IF \E m \in Members : m.name = up
        THEN [ok |-> TRUE, member |-> CHOOSE m \in Members : m.name = up,
              exc |-> Raise("", "")]
        ELSE [ok |-> FALSE, member |-> Str(name),
              exc |-> Raise("KeyError", PyRepr(name))]

\* DriverName[name]: Enum's __getitem__ looks the member up by its name and
\* raises KeyError(name) when no member has it.
EnumGetItem(name) ==
    IF \E m \in Members : m.name = name
    THEN [ok |-> TRUE, member |-> CHOOSE m \in Members : m.name = name,
          exc |-> Raise("", "")]
    ELSE [ok |-> FALSE, member |-> Str(name),
          exc |-> Raise("KeyError", PyRepr(name))]

\* getattr(__import__(mod_name, ..., [driver_name]), driver_name): the
\* module is loaded (it stays loaded), and its attribute is the class.  The
\* names the package itself imported from the module exist in it.
ImportAttr(mod_name, driver_name) ==
    IF <<mod_name, driver_name>> \in ModuleImports
    THEN Return(mod_name, driver_name)
    ELSE Raise("AttributeError", driver_name)

\* Variant of get_driver whose dict keys compare by value, as the members of
\* a str-mixin enumeration would.
get_driver_by_value(driver, imports, modules) ==
    IF \E k \in DOMAIN imports : k.value = driver.value
    THEN LET key == CHOOSE k \in DOMAIN imports : k.value = driver.value
             mod_name == imports[key][1]
             driver_name == imports[key][2]
         IN  [outcome |-> ImportAttr(mod_name, driver_name),
              modules |-> modules \cup {mod_name},
              imports |-> imports]
    ELSE [outcome |-> Raise("CloudStorageError",
                            "Driver '" \o PyStr(driver) \o "' does not exist."),
          modules |-> modules,
          imports |-> imports]

\* Variant of get_driver that takes the entry out of the dict.
get_driver_pop(driver, imports, modules) ==
    IF driver \in DOMAIN imports
    THEN LET mod_name == imports[driver][1]
             driver_name == imports[driver][2]
         IN  [outcome |-> ImportAttr(mod_name, driver_name),
              modules |-> modules \cup {mod_name},
              imports |-> [k \in DOMAIN imports \ {driver} |-> imports[k]]]
    ELSE [outcome |-> Raise("CloudStorageError",
                            "Driver '" \o PyStr(driver) \o "' does not exist."),
          modules |-> modules,
          imports |-> imports]

\* get_driver(driver).  `driver in _DRIVER_IMPORTS`: hash and equality of an
\* Enum member are by identity, so a str is never a key of the dict.
get_driver(driver, imports, modules) ==
    IF driver \in DOMAIN imports
    THEN LET mod_name == imports[driver][1]
             driver_name == imports[driver][2]
         IN  [outcome |-> ImportAttr(mod_name, driver_name),
              modules |-> modules \cup {mod_name},
              imports |-> imports]
    ELSE [outcome |-> Raise("CloudStorageError",
                            "Driver '" \o PyStr(driver) \o "' does not exist."),
          modules |-> modules,
          imports |-> imports]

\* get_driver_by_name(driver_name): a KeyError of the lookup is not caught.
get_driver_by_name(driver_name, imports, modules) ==
    LET driver == EnumGetItem(driver_name)
    IN  IF driver.ok
        THEN get_driver(driver.member, imports, modules)
        ELSE [outcome |-> driver.exc, modules |-> modules, imports |-> imports]

--------------------------------------------------------------------------
(* The registry as a state machine.                                        *)

\* What get_driver may be handed: a member, or (against its annotation) a str.
DriverArgs == Members \cup {Str(s) : s \in Strings}

Call(fn, arg, outcome) == [fn |-> fn, arg |-> arg, outcome |-> outcome]

\* `import cloudstorage`: the module body runs; its from-imports load every
\* module they name, and _DRIVER_IMPORTS is bound to the dict literal.
LoadPackage ==
    /\ pc = "unloaded"
    /\ pc' = "loaded"
    /\ sys_modules' = sys_modules \cup {i[1] : i \in ModuleImports}
    /\ driver_imports' = _DRIVER_IMPORTS
    /\ UNCHANGED <<calls, ncalls>>
    /\ UNCHANGED storevars

CallGetDriver ==
    /\ pc = "loaded"
    /\ ncalls < MaxCalls
    /\ \E driver \in DriverArgs :
          LET r == get_driver(driver, driver_imports, sys_modules)
          IN  /\ calls' = calls \cup {Call("get_driver", driver, r.outcome)}
              /\ sys_modules' = r.modules
              /\ driver_imports' = r.imports
    /\ ncalls' = ncalls + 1
    /\ UNCHANGED pc
    /\ UNCHANGED storevars

CallGetDriverByName ==
    /\ pc = "loaded"
    /\ ncalls < MaxCalls
    /\ \E driver_name \in Strings :
          LET r == get_driver_by_name(driver_name, driver_imports, sys_modules)
          IN  /\ calls' = calls \cup {Call("get_driver_by_name",
                                           Str(driver_name), r.outcome)}
              /\ sys_modules' = r.modules
              /\ driver_imports' = r.imports
    /\ ncalls' = ncalls + 1
    /\ UNCHANGED pc
    /\ UNCHANGED storevars

RegistryNext == LoadPackage \/ CallGetDriver \/ CallGetDriverByName


--------------------------------------------------------------------------
(* The Driver / Container / Blob contract (cloudstorage.base and the       *)
(* drivers): one Driver bound to one provider account, the containers and *)
(* blobs the account holds, and the Blob instances the caller holds.       *)

ContainerNames == {"reports", "logs"}

BlobNames == {"report.csv", "notes.txt"}

\* What a provider may do where the contract leaves it a choice: deleting a
\* blob that is not there fails NotFoundError or succeeds silently; URL
\* signing and in-place metadata updates are supported or not.
Providers ==
    [delete_missing : {"NotFoundError", "silent"},
     signing : BOOLEAN, metadata : BOOLEAN]

NoCascade == [active |-> FALSE, name |-> "", todo |-> {}, failed |-> {}]

Result(op, c, b, h, casc, outcome, not_removed) ==
    [op |-> op, container |-> c, blob |-> b, handle |-> h, cascade |-> casc,
     outcome |-> outcome, not_removed |-> not_removed]

NoResult == Result("none", "", "", 0, FALSE, "ok", {})

BlobsOf(c, bs) == {b \in BlobNames : <<c, b>> \in bs}

\* A Blob instance, as upload_blob and get_blob return it.
BlobInstance(c, b) == [container |-> c, name |-> b, state |-> "stored"]

\* Driver.get_container(name)
get_container(name, cs) == IF name \in cs THEN "ok" ELSE "NotFoundError"

\* Variant of Blob.delete() that keeps no state in the instance.
keep_instance(inst) == inst

\* Blob.delete() leaves the instance deleted.
mark_deleted(inst) == [inst EXCEPT !.state = "deleted"]

\* What an operation other than delete() on a Blob instance gives.
blob_outcome(op, inst, bs, prov) ==
    IF inst.state = "deleted" THEN "NotFoundError"
    ELSE IF op = "generate_download_url" /\ ~prov.signing
         THEN "UnsupportedOperationError"
    ELSE IF op = "set_metadata" /\ ~prov.metadata
         THEN "UnsupportedOperationError"
    ELSE IF <<inst.container, inst.name>> \notin bs THEN "NotFoundError"
    ELSE "ok"

\* Deleting a blob that is not there, by the provider's policy.
missing_delete_outcome(prov) ==
    IF prov.delete_missing = "silent" THEN "ok" ELSE "NotFoundError"

\* Variant of delete_container that does not look at the blobs.
delete_container_ignores_blobs(name, casc, cs, bs) ==
    IF name \notin cs THEN "NotFoundError" ELSE "ok"

\* delete_container(name, cascade) up to where blobs are deleted: the
\* outcome when it ends at once, "cascading" when the blobs go first.
delete_container_check(name, casc, cs, bs) ==
    IF name \notin cs THEN "NotFoundError"
    ELSE IF BlobsOf(name, bs) = {} THEN "ok"
    ELSE IF ~casc THEN "NotEmptyError"
    ELSE "cascading"

\* Variant of the end of a cascade that removes the container regardless.
cascade_end_drops_container(name, failed, cs) ==
    [containers |-> cs \ {name},
     outcome |-> IF failed = {} THEN "ok" ELSE "CloudStorageError",
     not_removed |-> failed]

\* How a cascade ends: the container goes only when every blob went, and
\* the error names the blobs that did not.
cascade_end(name, failed, cs) ==
    IF failed = {}
    THEN [containers |-> cs \ {name}, outcome |-> "ok", not_removed |-> {}]
    ELSE [containers |-> cs, outcome |-> "CloudStorageError",
          not_removed |-> failed]

Idle == ~cascade.active /\ nops < MaxOps

CreateContainer ==
    /\ Idle
    /\ \E name \in ContainerNames :
          /\ containers' = containers \cup {name}
          /\ result' = Result("create_container", name, "", 0, FALSE, "ok", {})
    /\ nops' = nops + 1
    /\ UNCHANGED <<provider, blobs, handles, cascade, deleted_ok>>
    /\ UNCHANGED regvars

GetContainer ==
    /\ Idle
    /\ \E name \in ContainerNames :
          result' = Result("get_container", name, "", 0, FALSE,
                           get_container(name, containers), {})
    /\ nops' = nops + 1
    /\ UNCHANGED <<provider, containers, blobs, handles, cascade, deleted_ok>>
    /\ UNCHANGED regvars

\* Container.upload_blob(name, source): the blob is stored (replacing one of
\* the same name) and a new Blob instance is returned.
UploadBlob ==
    /\ Idle
    /\ Len(handles) < MaxHandles
    /\ \E c \in containers, b \in BlobNames :
          /\ blobs' = blobs \cup {<<c, b>>}
          /\ handles' = Append(handles, BlobInstance(c, b))
          /\ result' = Result("upload_blob", c, b, Len(handles) + 1, FALSE,
                              "ok", {})
    /\ nops' = nops + 1
    /\ UNCHANGED <<provider, containers, cascade, deleted_ok>>
    /\ UNCHANGED regvars

\* Container.delete_blob(name): a blob that is there is removed, unless the
\* provider fails to remove it.
DeleteBlob ==
    /\ Idle
    /\ \E c \in containers, b \in BlobNames :
          IF <<c, b>> \notin blobs
          THEN /\ result' = Result("delete_blob", c, b, 0, FALSE,
                                   missing_delete_outcome(provider), {})
               /\ UNCHANGED blobs
          ELSE \/ /\ blobs' = blobs \ {<<c, b>>}
                  /\ result' = Result("delete_blob", c, b, 0, FALSE, "ok", {})
               \/ /\ result' = Result("delete_blob", c, b, 0, FALSE,
                                      "CloudStorageError", {b})
                  /\ UNCHANGED blobs
    /\ nops' = nops + 1
    /\ UNCHANGED <<provider, containers, handles, cascade, deleted_ok>>
    /\ UNCHANGED regvars

\* Blob.download, Blob.generate_download_url, Blob.set_metadata
BlobOperation ==
    /\ Idle
    /\ \E h \in DOMAIN handles :
       \E op \in {"download", "generate_download_url", "set_metadata"} :
          result' = Result(op, handles[h].container, handles[h].name, h, FALSE,
                           blob_outcome(op, handles[h], blobs, provider), {})
    /\ nops' = nops + 1
    /\ UNCHANGED <<provider, containers, blobs, handles, cascade, deleted_ok>>
    /\ UNCHANGED regvars

\* Blob.delete(): an instance already deleted fails; a blob that is gone is
\* the provider's policy; a blob that is there is removed, unless the
\* provider fails to remove it.  A delete() that succeeds leaves the
\* instance deleted.
BlobDelete ==
    /\ Idle
    /\ \E h \in DOMAIN handles :
          LET inst == handles[h]
              there == <<inst.container, inst.name>> \in blobs
          IN  \E o \in {"ok", "NotFoundError", "CloudStorageError"} :
                /\ IF inst.state = "deleted" THEN o = "NotFoundError"
                   ELSE IF ~there THEN o = missing_delete_outcome(provider)
                   ELSE o \in {"ok", "CloudStorageError"}
                /\ result' = Result("delete", inst.container, inst.name, h,
                                    FALSE, o, {})
                /\ IF o = "ok"
                   THEN /\ blobs' = blobs \ {<<inst.container, inst.name>>}
                        /\ handles' = [handles EXCEPT ![h] = mark_deleted(inst)]
                        /\ deleted_ok' = deleted_ok \cup {h}
                   ELSE UNCHANGED <<blobs, handles, deleted_ok>>
    /\ nops' = nops + 1
    /\ UNCHANGED <<provider, containers, cascade>>
    /\ UNCHANGED regvars

\* Driver.delete_container(name, cascade): ends at once, or starts deleting
\* the blobs of the container.
DeleteContainer ==
    /\ Idle
    /\ \E name \in ContainerNames, casc \in BOOLEAN :
          LET o == delete_container_check(name, casc, containers, blobs)
          IN  /\ result' = Result("delete_container", name, "", 0, casc, o, {})
              /\ containers' = IF o = "ok" THEN containers \ {name}
                               ELSE containers
              /\ cascade' = IF o = "cascading"
                            THEN [active |-> TRUE, name |-> name,
                                  todo |-> BlobsOf(name, blobs), failed |-> {}]
                            ELSE cascade
    /\ nops' = nops + 1
    /\ UNCHANGED <<provider, blobs, handles, deleted_ok>>
    /\ UNCHANGED regvars

\* The cascade deletes one blob: it is removed, or the provider fails to
\* remove it and the cascade goes on with the others.
CascadeDeleteBlob ==
    /\ cascade.active
    /\ \E b \in cascade.todo :
          \/ /\ blobs' = blobs \ {<<cascade.name, b>>}
             /\ cascade' = [cascade EXCEPT !.todo = @ \ {b}]
          \/ /\ cascade' = [cascade EXCEPT !.todo = @ \ {b},
                                           !.failed = @ \cup {b}]
             /\ UNCHANGED blobs
    /\ UNCHANGED <<provider, containers, handles, deleted_ok, result, nops>>
    /\ UNCHANGED regvars

\* Every blob was tried: the container is removed, or the error is raised.
CascadeEnd ==
    /\ cascade.active
    /\ cascade.todo = {}
    /\ LET e == cascade_end(cascade.name, cascade.failed, containers)
       IN  /\ containers' = e.containers
           /\ result' = Result("delete_container", cascade.name, "", 0, TRUE,
                               e.outcome, e.not_removed)
    /\ cascade' = NoCascade
    /\ UNCHANGED <<provider, blobs, handles, deleted_ok, nops>>
    /\ UNCHANGED regvars

StoreNext ==
    \/ CreateContainer \/ GetContainer \/ UploadBlob \/ DeleteBlob
    \/ BlobOperation \/ BlobDelete
    \/ DeleteContainer \/ CascadeDeleteBlob \/ CascadeEnd

InitRegistry ==
    /\ pc = "unloaded"
    /\ sys_modules = {}
    /\ driver_imports = << >>
    /\ calls = {}
    /\ ncalls = 0

\* No storage operation was made: the registry runs are about lookups only.
InitStore ==
    /\ provider = [delete_missing |-> "NotFoundError", signing |-> TRUE,
                   metadata |-> TRUE]
    /\ containers = {}
    /\ blobs = {}
    /\ handles = << >>
    /\ cascade = NoCascade
    /\ deleted_ok = {}
    /\ result = NoResult
    /\ nops = 0

Init == InitRegistry /\ InitStore

Spec == Init /\ [][RegistryNext]_vars

\* A Driver of any provider, in a process that has loaded the package.
StoreInit ==
    /\ pc = "loaded"
    /\ sys_modules = {i[1] : i \in ModuleImports}
    /\ driver_imports = _DRIVER_IMPORTS
    /\ calls = {}
    /\ ncalls = 0
    /\ provider \in Providers
    /\ containers = {}
    /\ blobs = {}
    /\ handles = << >>
    /\ cascade = NoCascade
    /\ deleted_ok = {}
    /\ result = NoResult
    /\ nops = 0

StoreSpec == StoreInit /\ [][StoreNext]_vars

--------------------------------------------------------------------------
(* Properties of the registry.                                             *)

Loaded == pc = "loaded"

ByName(c) == c.fn = "get_driver_by_name"

ByMember(c) == c.fn = "get_driver"

\* What each function gives in the current state, without calling it.
Resolve(driver) == get_driver(driver, driver_imports, sys_modules).outcome

ResolveName(s) == get_driver_by_name(s, driver_imports, sys_modules).outcome

\* The provider identifiers that were requested (and resolved) so far.
Requested ==
    {c.arg : c \in {d \in calls : ByMember(d) /\ d.arg \in Members}}
    \cup {Member(c.arg.value) :
            c \in {d \in calls : ByName(d) /\ d.arg.value \in MemberNames}}

\* C1: for each of the five provider names n, get_driver_by_name(n) and
\* get_driver(DriverName.n) return the same implementation type, in the
\* current state and in every pair of calls made.
C1_SameImplementation ==
    Loaded =>
        /\ \A n \in {"AZURE", "CLOUDFILES", "GOOGLESTORAGE", "LOCAL", "S3"} :
              /\ ResolveName(n).kind = "return"
              /\ ResolveName(n) = Resolve(Member(n))
        /\ \A c \in calls, d \in calls :
              (ByName(c) /\ ByMember(d) /\ d.arg \in Members
                 /\ d.arg.name = c.arg.value)
              => (c.outcome.kind = "return" /\ c.outcome = d.outcome)

C1_Witness ==
    /\ Call("get_driver_by_name", Str("LOCAL"),
            Return("cloudstorage.drivers.local", "LocalDriver")) \in calls
    /\ Call("get_driver", Member("LOCAL"),
            Return("cloudstorage.drivers.local", "LocalDriver")) \in calls

\* C2: get_driver_by_name with a name that is none of the five identifiers
\* fails with an error of kind CloudStorageError whose message names the
\* identifier, and with no other kind of error.
C2_UnknownNameIsCloudStorageError ==
    \A c \in calls :
        (ByName(c) /\ c.arg.value \notin MemberNames)
        => /\ c.outcome.kind = "raise"
           /\ "CloudStorageError" \in Bases(c.outcome.exc)
           /\ c.outcome.msg \in {"Driver '" \o c.arg.value \o "' does not exist.",
                                PyRepr(c.arg.value)}

\* C3: resolution is lazy: once the package is loaded, the concrete driver
\* modules that are loaded are exactly those of the identifiers requested.
C3_LazyResolution ==
    Loaded =>
        sys_modules \cap DriverModules
            = {_DRIVER_IMPORTS[m][1] : m \in Requested}

\* C4: the registry is total over the five identifiers and has no other
\* key: get_driver returns, for each member, the implementation named for
\* it, and never the lookup error.
C4_ExpectedClass(n) ==
    CASE n = "AZURE"         -> "AzureStorageDriver"
      [] n = "CLOUDFILES"    -> "CloudFilesDriver"
      [] n = "GOOGLESTORAGE" -> "GoogleStorageDriver"
      [] n = "LOCAL"         -> "LocalDriver"
      [] n = "S3"            -> "S3Driver"

C4_RegistryTotal ==
    Loaded =>
        /\ MemberNames = {"AZURE", "CLOUDFILES", "GOOGLESTORAGE", "LOCAL", "S3"}
        /\ Cardinality(Members) = 5
        /\ DOMAIN driver_imports = Members
        /\ \A m \in Members :
              /\ Resolve(m).kind = "return"
              /\ Resolve(m).class = C4_ExpectedClass(m.name)
        /\ \A c \in calls :
              (ByMember(c) /\ c.arg \in Members)
              => /\ c.outcome.kind = "return"
                 /\ c.outcome.class = C4_ExpectedClass(c.arg.name)

C4_Witness ==
    /\ Call("get_driver", Member("S3"),
            Return("cloudstorage.drivers.amazon", "S3Driver")) \in calls
    /\ Call("get_driver", Member("AZURE"),
            Return("cloudstorage.drivers.microsoft", "AzureStorageDriver"))
          \in calls

C8_ExactNames ==
    /\ Loaded =>
          \A s \in Strings :
              (ResolveName(s).kind = "return")
              <=> s \in {"AZURE", "CLOUDFILES", "GOOGLESTORAGE", "S3", "LOCAL"}
    /\ \A c \in calls :
          ByName(c) =>
              ((c.outcome.kind = "return")
               <=> c.arg.value \in {"AZURE", "CLOUDFILES", "GOOGLESTORAGE",
                                    "S3", "LOCAL"})

C8_Witness ==
    /\ \E c \in calls :
          ByName(c) /\ c.arg = Str("local") /\ c.outcome.kind = "raise"
    /\ \E c \in calls :
          ByName(c) /\ c.arg = Str("LOCAL") /\ c.outcome.kind = "return"

\* C9: the registry is injective: two distinct members resolve to distinct
\* (module, class) targets.
C9_Injective ==
    Loaded =>
        /\ \A m1 \in Members, m2 \in Members :
              m1 # m2 =>
                  /\ driver_imports[m1] # driver_imports[m2]
                  /\ <<Resolve(m1).module, Resolve(m1).class>>
                        # <<Resolve(m2).module, Resolve(m2).class>>
        /\ \A c \in calls, d \in calls :
              (ByMember(c) /\ ByMember(d) /\ c.arg \in Members
                 /\ d.arg \in Members /\ c.arg # d.arg)
              => c.outcome # d.outcome

C9_Witness ==
    \E c \in calls, d \in calls :
        /\ ByMember(c) /\ ByMember(d)
        /\ c.arg = Member("S3") /\ d.arg = Member("GOOGLESTORAGE")
        /\ c.outcome.kind = "return" /\ d.outcome.kind = "return"

\* C10: a lookup, failed or not, leaves _DRIVER_IMPORTS as it was, and
\* every lookup made gives what the earlier lookups of the same identifier
\* gave.
C10_LookupsLeaveRegistry ==
    [][Loaded =>
          /\ driver_imports' = driver_imports
          /\ \A c \in calls', d \in calls :
                (c.fn = d.fn /\ c.arg = d.arg) => c.outcome = d.outcome]_vars

\* A lookup was repeated, after a lookup that failed.
C10_Witness ==
    /\ ncalls = 3
    /\ Cardinality(calls) = 2
    /\ \E c \in calls : c.outcome.kind = "raise"
    /\ \E c \in calls : c.outcome.kind = "return"

--------------------------------------------------------------------------
(* Properties of the Driver / Container / Blob contract.                   *)

Started == nops' = nops + 1

CascadeEnded == cascade.active /\ ~cascade'.active

\* C6: delete_container on a non-empty container without cascade fails
\* NotEmptyError and changes neither the container nor its blobs; with
\* cascade the blobs go before the container does (no blob is ever left in
\* a container that is gone) and get_container then fails NotFoundError;
\* when a blob cannot be deleted the container and the undeleted blobs
\* stay and the error lists exactly the blobs that were not removed.
C6_DeleteContainer ==
    [][/\ \A name \in ContainerNames :
             (/\ Started
              /\ result'.op = "delete_container"
              /\ result'.container = name
              /\ ~result'.cascade
              /\ name \in containers
              /\ BlobsOf(name, blobs) # {})
             => /\ result'.outcome = "NotEmptyError"
                /\ containers' = containers
                /\ blobs' = blobs
                /\ handles' = handles
       /\ \A p \in blobs' : p[1] \in containers'
       /\ cascade'.active => cascade'.name \in containers'
       /\ (CascadeEnded /\ result'.outcome = "ok")
             => /\ cascade.name \notin containers'
                /\ BlobsOf(cascade.name, blobs') = {}
                /\ get_container(cascade.name, containers') = "NotFoundError"
       /\ (CascadeEnded /\ result'.outcome # "ok")
             => /\ result'.outcome = "CloudStorageError"
                /\ cascade.name \in containers'
                /\ result'.not_removed # {}
                /\ result'.not_removed = BlobsOf(cascade.name, blobs')
      ]_vars

\* A cascade over two blobs removed one and failed on the other.
C6_Witness ==
    /\ result.op = "delete_container"
    /\ result.cascade
    /\ result.outcome = "CloudStorageError"
    /\ Cardinality(result.not_removed) = 1
    /\ Len(handles) = 2
    /\ handles[1].container = result.container
    /\ handles[2].container = result.container
    /\ handles[1].name # handles[2].name
    /\ BlobsOf(result.container, blobs) = result.not_removed

==========================================================================
